---------------------------- MODULE Spec2Model ----------------------------
(***************************************************************************)
(* A model of the api-proxy edge worker: the fetch pipeline of src/lib.rs  *)
(* (authentication, region classification, shard routing), the regional    *)
(* processor generated by define_processor!, and the two translators with  *)
(* their response reducer (handlers/http_handler.rs, soap_handler.rs).     *)
(*                                                                         *)
(* Text is modelled as a sequence of one-character strings, so that the    *)
(* character-level operations of the code (starts_with, to_lowercase,      *)
(* html_escape, chars().all(..)) are computed and not assumed.  Str(s)     *)
(* renders such a sequence as one string for byte-exact comparison.        *)
(***************************************************************************)
EXTENDS Integers, Sequences, FiniteSets, TLC

\* Option<T>: None is the empty tuple and Some(x) the tuple of x.
None == <<>>
Some(x) == <<x>>
Opt(S) == {None} \cup { Some(x) : x \in S }

\* A record-valued variable that holds nothing yet.
Nil == [ nil |-> TRUE ]

(***************************************************************************)
(* Text helpers                                                            *)
(***************************************************************************)
RECURSIVE Str(_)
\* The text s as one string (the bytes that go on the wire).
Str(s) == IF s = <<>> THEN "" ELSE Head(s) \o Str(Tail(s))

RECURSIVE Flatten(_)
\* Concatenation of a sequence of texts (String::push_str in a loop).
Flatten(ss) == IF ss = <<>> THEN <<>> ELSE Head(ss) \o Flatten(Tail(ss))

\* str::starts_with
StartsWith(s, p) == Len(s) >= Len(p) /\ SubSeq(s, 1, Len(p)) = p

\* str::strip_prefix(p).unwrap_or("")
StripPrefixOrEmpty(s, p) ==
    IF StartsWith(s, p) THEN SubSeq(s, Len(p) + 1, Len(s)) ELSE <<>>

UpperLetters ==
    <<"A","B","C","D","E","F","G","H","I","J","K","L","M",
      "N","O","P","Q","R","S","T","U","V","W","X","Y","Z">>
LowerLetters ==
    <<"a","b","c","d","e","f","g","h","i","j","k","l","m",
      "n","o","p","q","r","s","t","u","v","w","x","y","z">>

\* char::to_lowercase on the characters of the model's alphabet.
LowerChar(c) ==
    IF \E i \in 1..26 : UpperLetters[i] = c
    THEN LowerLetters[CHOOSE i \in 1..26 : UpperLetters[i] = c]
    ELSE c

\* str::to_lowercase
to_lowercase(s) == [i \in 1..Len(s) |-> LowerChar(s[i])]

(***************************************************************************)
(* Bytes of a text (UTF-8; the model's alphabet is ASCII and U+00E9)       *)
(***************************************************************************)
\* The printable ASCII characters, code 32 to 126, in order (code 96, the
\* grave accent, cannot be written in a string here and is never used).
AsciiPrintable ==
    <<" ","!","\"","#","$","%","&","'","(",")","*","+",",","-",".","/",
      "0","1","2","3","4","5","6","7","8","9",":",";","<","=",">","?",
      "@","A","B","C","D","E","F","G","H","I","J","K","L","M","N","O",
      "P","Q","R","S","T","U","V","W","X","Y","Z","[","\\","]","^","_",
      "grave","a","b","c","d","e","f","g","h","i","j","k","l","m","n","o",
      "p","q","r","s","t","u","v","w","x","y","z","{","|","}","~">>

\* The byte of an ASCII character.
Ord(c) ==
    IF c = "\n" THEN 10
    ELSE IF c = "\t" THEN 9
    ELSE IF c = "\r" THEN 13
    ELSE 31 + (CHOOSE i \in 1..Len(AsciiPrintable) : AsciiPrintable[i] = c)

\* The characters above U+007F of the model: U+00E9, written "\\xE9"
\* (one element of a text; its UTF-8 bytes are C3 A9).
NonAscii == { "\\xE9" }

\* The UTF-8 bytes of a character.
Utf8(c) == IF c \in NonAscii THEN <<195, 169>> ELSE <<Ord(c)>>

RECURSIVE Utf8Bytes(_, _, _)
\* The UTF-8 bytes of the characters lo..hi of a text, by halves.
Utf8Bytes(s, lo, hi) ==
    IF lo > hi THEN <<>>
    ELSE IF lo = hi THEN Utf8(s[lo])
    ELSE LET mid == (lo + hi) \div 2
         IN  Utf8Bytes(s, lo, mid) \o Utf8Bytes(s, mid + 1, hi)

\* String::as_bytes
as_bytes(s) == Utf8Bytes(s, 1, Len(s))

(***************************************************************************)
(* 64-bit words as four 16-bit limbs, least significant first              *)
(***************************************************************************)
Limb == 65536

RECURSIVE Pow2(_)
Pow2(n) == IF n = 0 THEN 1 ELSE 2 * Pow2(n - 1)

RECURSIVE XorN(_, _, _)
\* Bitwise exclusive or of two n-bit naturals.
XorN(a, b, n) ==
    IF n = 0 THEN 0
    ELSE ((a + b) % 2) + 2 * XorN(a \div 2, b \div 2, n - 1)

\* u64 ^ u64
Xor64(x, y) ==
    << XorN(x[1], y[1], 16), XorN(x[2], y[2], 16),
       XorN(x[3], y[3], 16), XorN(x[4], y[4], 16) >>

\* u64::wrapping_add
Add64(x, y) ==
    LET s1 == x[1] + y[1]
        s2 == x[2] + y[2] + (s1 \div Limb)
        s3 == x[3] + y[3] + (s2 \div Limb)
        s4 == x[4] + y[4] + (s3 \div Limb)
    IN  <<s1 % Limb, s2 % Limb, s3 % Limb, s4 % Limb>>

\* u64::rotate_left
Rotl64(x, r) ==
    LET q == r \div 16
        s == r % 16
        \* the limbs moved up by q places
        w == << x[((4 - q) % 4) + 1], x[((5 - q) % 4) + 1],
                x[((6 - q) % 4) + 1], x[((7 - q) % 4) + 1] >>
        hi == Pow2(s)
        lo == Pow2(16 - s)
    IN  IF s = 0 THEN w
        ELSE << ((w[1] * hi) % Limb) + (w[4] \div lo),
                ((w[2] * hi) % Limb) + (w[1] \div lo),
                ((w[3] * hi) % Limb) + (w[2] \div lo),
                ((w[4] * hi) % Limb) + (w[3] \div lo) >>

\* u64 % 10 (the limbs taken most significant first).
Mod64(x, m) ==
    LET r4 == x[4] % m
        r3 == (r4 * Limb + x[3]) % m
        r2 == (r3 * Limb + x[2]) % m
    IN  (r2 * Limb + x[1]) % m

\* A little-endian u64 from 8 bytes.
WordOfBytes(b) ==
    << b[1] + 256 * b[2], b[3] + 256 * b[4],
       b[5] + 256 * b[6], b[7] + 256 * b[8] >>

(***************************************************************************)
(* std::collections::hash_map::DefaultHasher: SipHash-1-3                  *)
(***************************************************************************)
\* One SipRound on the state <<v0, v1, v2, v3>>.
SipRound(v) ==
    LET a0 == Add64(v[1], v[2])
        a1 == Xor64(Rotl64(v[2], 13), a0)
        b0 == Rotl64(a0, 32)
        a2 == Add64(v[3], v[4])
        a3 == Xor64(Rotl64(v[4], 16), a2)
        c0 == Add64(b0, a3)
        c3 == Xor64(Rotl64(a3, 21), c0)
        c2 == Add64(a2, a1)
        c1 == Xor64(Rotl64(a1, 17), c2)
    IN  <<c0, c1, Rotl64(c2, 32), c3>>

\* The initial state for the key (k0, k1): the key xored into "somepseudorandomlygeneratedbytes".
SipInit(k0, k1) ==
    << Xor64(k0, <<25973, 28787, 28005, 29551>>),
       Xor64(k1, <<28525, 28260, 29281, 25711>>),
       Xor64(k0, <<29281, 28261, 26469, 27769>>),
       Xor64(k1, <<25971, 31092, 25698, 29797>>) >>

\* One message word: v3 ^= m; one round (c = 1); v0 ^= m.
SipCompress(v, m) ==
    LET r == SipRound(<<v[1], v[2], v[3], Xor64(v[4], m)>>)
    IN  <<Xor64(r[1], m), r[2], r[3], r[4]>>

RECURSIVE SipBlocks(_, _)
\* The words of the message compressed in turn (the state is evaluated
\* before the next word is taken).
SipBlocks(v, bytes) ==
    IF bytes = <<>> THEN v
    ELSE LET r == SipCompress(v, WordOfBytes(SubSeq(bytes, 1, 8)))
         IN  IF r # <<>> THEN SipBlocks(r, SubSeq(bytes, 9, Len(bytes)))
             ELSE r

\* The message padded with zeros to 7 mod 8, then its length mod 256.
SipPad(msg) ==
    LET n == Len(msg)
        z == 7 - (n % 8)
    IN  msg \o [i \in 1..z |-> 0] \o <<n % 256>>

\* Hasher::finish: v2 ^= 0xff, three rounds (d = 3), v0 ^ v1 ^ v2 ^ v3.
SipFinish(v) ==
    LET f == SipRound(SipRound(SipRound(
                 <<v[1], v[2], Xor64(v[3], <<255, 0, 0, 0>>), v[4]>>)))
    IN  Xor64(Xor64(f[1], f[2]), Xor64(f[3], f[4]))

SipHash13(k0, k1, msg) == SipFinish(SipBlocks(SipInit(k0, k1), SipPad(msg)))

(***************************************************************************)
(* Inputs: the texts a request can carry                                   *)
(***************************************************************************)
\* The AUTH_TOKEN secret of the deployment, when one is configured.
SecretToken == <<"s","3","k">>
Secrets == Opt({SecretToken})

BearerPrefix == <<"B","e","a","r","e","r"," ">>

\* Authorization header values: absent, the secret, a prefix and an
\* extension of it, the wrong scheme, the wrong case, an empty token,
\* no scheme, two spaces.
AuthHeaders ==
  Opt(
    { BearerPrefix \o SecretToken,
      BearerPrefix \o <<"s","3">>,
      BearerPrefix \o SecretToken \o <<"x">>,
      <<"b","e","a","r","e","r"," ">> \o SecretToken,
      <<"B","a","s","i","c"," ">> \o SecretToken,
      BearerPrefix,
      SecretToken,
      BearerPrefix \o <<" ">> \o SecretToken })

\* X-CF-Region header values: absent, the 8 codes in several letter cases,
\* and values that are no code.
RegionHeaders ==
  Opt(
    { <<"w","n","a","m">>, <<"E","N","A","M">>, <<"e","n","a","m">>,
      <<"w","e","u","r">>, <<"W","E","U","R">>, <<"W","e","U","r">>,
      <<"e","e","u","r">>, <<"E","e","u","r">>,
      <<"a","p","a","c">>, <<"A","P","A","C">>,
      <<"o","c">>, <<"O","c">>, <<"a","f">>, <<"A","F">>,
      <<"m","e">>, <<"M","E">>,
      <<>>, <<"e","u">>, <<"w","e","u">>, <<"w","e","u","r","x">>,
      <<"e","e","u","r"," ">> })

\* X-Request-Type header values.
RequestTypes == Opt({ <<"s","o","a","p">>, <<"S","O","A","P">>, <<"h","t","t","p">> })

\* X-Log-Level header values.
LogLevelHeaders == Opt({ <<"D","e","b","u","g">> })

\* Request bodies: the JSON texts a caller posts (their bytes are hashed
\* by the router and parsed by the processor).
\* the empty body
Body_empty ==
    <<>>

\* {"url":"u"}
Body_http_default ==
    <<"{","\"","u","r","l","\"",":","\"","u","\"","}">>

\* {"url":"u","method":"get","params":{"q":"x"},"headers":{"X-A":"1"}}
Body_http_get ==
    <<"{","\"","u","r","l","\"",":","\"","u","\"",",","\"","m","e","t",
      "h","o","d","\"",":","\"","g","e","t","\"",",","\"","p","a","r","a",
      "m","s","\"",":","{","\"","q","\"",":","\"","x","\"","}",",","\"",
      "h","e","a","d","e","r","s","\"",":","{","\"","X","-","A","\"",":",
      "\"","1","\"","}","}">>

\* {"url":"u","action":"a","namespace":"n","params":[["1",44]]}
Body_soap_one ==
    <<"{","\"","u","r","l","\"",":","\"","u","\"",",","\"","a","c","t",
      "i","o","n","\"",":","\"","a","\"",",","\"","n","a","m","e","s","p",
      "a","c","e","\"",":","\"","n","\"",",","\"","p","a","r","a","m","s",
      "\"",":","[","[","\"","1","\"",",","4","4","]","]","}">>

\* {"url":"u","action":"a","namespace":"n","headers":{"Bad Name":"v"}}
Body_bad_header ==
    <<"{","\"","u","r","l","\"",":","\"","u","\"",",","\"","a","c","t",
      "i","o","n","\"",":","\"","a","\"",",","\"","n","a","m","e","s","p",
      "a","c","e","\"",":","\"","n","\"",",","\"","h","e","a","d","e","r",
      "s","\"",":","{","\"","B","a","d"," ","N","a","m","e","\"",":","\"",
      "v","\"","}","}">>

\* {"url":"u","action":"getDIDCountry","namespace":"urn:getDIDCountry","params":[["1","44"],["format","json"]]}
Body_soap_example ==
    <<"{","\"","u","r","l","\"",":","\"","u","\"",",","\"","a","c","t",
      "i","o","n","\"",":","\"","g","e","t","D","I","D","C","o","u","n",
      "t","r","y","\"",",","\"","n","a","m","e","s","p","a","c","e","\"",
      ":","\"","u","r","n",":","g","e","t","D","I","D","C","o","u","n",
      "t","r","y","\"",",","\"","p","a","r","a","m","s","\"",":","[","[",
      "\"","1","\"",",","\"","4","4","\"","]",",","[","\"","f","o","r",
      "m","a","t","\"",",","\"","j","s","o","n","\"","]","]","}">>

Bodies ==
    { Body_empty, Body_http_default, Body_http_get, Body_soap_one,
      Body_bad_header, Body_soap_example }

Requests ==
    [ authorization : AuthHeaders, region : RegionHeaders,
      request_type : RequestTypes, log_level : LogLevelHeaders,
      body : Bodies ]

(***************************************************************************)
(* auth.rs                                                                 *)
(***************************************************************************)
\* AuthError::forbidden(): Response::error(.., 403)
Forbidden ==
    [ status |-> 403,
      body |-> "Forbidden: Invalid or missing authentication token" ]

\* validate_token with a token comparison that accepts any prefix of the secret.
validate_token_prefix(authorization, secret) ==
    IF secret = None \/ authorization = None THEN "Err"
    ELSE IF ~StartsWith(authorization[1], BearerPrefix) THEN "Err"
    ELSE IF ~StartsWith(secret[1], StripPrefixOrEmpty(authorization[1], BearerPrefix))
         THEN "Err"
    ELSE "Ok"

\* validate_token: Ok(()) or Err(..); the error's text is only logged.
validate_token(authorization, secret) ==
    IF secret = None THEN "Err"                     \* env.secret("AUTH_TOKEN")?
    ELSE IF authorization = None THEN "Err"         \* Missing Authorization header
    ELSE IF ~StartsWith(authorization[1], BearerPrefix)
         THEN "Err"                                 \* Invalid header format
    ELSE IF StripPrefixOrEmpty(authorization[1], BearerPrefix) # secret[1]
         THEN "Err"                                 \* Invalid token
    ELSE "Ok"

(***************************************************************************)
(* logger.rs                                                               *)
(***************************************************************************)
\* Option<String>::unwrap_or_default
UnwrapOrDefault(h) == IF h = None THEN <<>> ELSE h[1]

\* LogLevel::from_header
LogLevel_from_header(value) ==
    IF to_lowercase(value) = <<"d","e","b","u","g">> THEN "Debug" ELSE "Info"

(***************************************************************************)
(* lib.rs: region classification                                           *)
(***************************************************************************)
ProcessorRegion ==
    { "WesternNorthAmerica", "EasternNorthAmerica", "WesternEurope",
      "EasternEurope", "AsiaPacific", "Oceania", "Africa", "MiddleEast" }

\* A classifier that compares the header without lowering its case.
region_of_header_case_sensitive(region_header) ==
    CASE region_header = <<"w","n","a","m">> -> "WesternNorthAmerica"
      [] region_header = <<"e","n","a","m">> -> "EasternNorthAmerica"
      [] region_header = <<"w","e","u","r">> -> "WesternEurope"
      [] region_header = <<"e","e","u","r">> -> "EasternEurope"
      [] region_header = <<"a","p","a","c">> -> "AsiaPacific"
      [] region_header = <<"o","c">> -> "Oceania"
      [] region_header = <<"a","f">> -> "Africa"
      [] region_header = <<"m","e">> -> "MiddleEast"
      [] OTHER -> "WesternNorthAmerica"

\* The match on region_header.to_lowercase().as_str().
region_of_header(region_header) ==
    LET h == to_lowercase(region_header)
    IN  CASE h = <<"w","n","a","m">> -> "WesternNorthAmerica"
          [] h = <<"e","n","a","m">> -> "EasternNorthAmerica"
          [] h = <<"w","e","u","r">> -> "WesternEurope"
          [] h = <<"e","e","u","r">> -> "EasternEurope"
          [] h = <<"a","p","a","c">> -> "AsiaPacific"
          [] h = <<"o","c">> -> "Oceania"
          [] h = <<"a","f">> -> "Africa"
          [] h = <<"m","e">> -> "MiddleEast"
          [] OTHER -> "WesternNorthAmerica"

\* headers().get("X-CF-Region")?.unwrap_or_else(|| "wnam".to_string())
region_header_or_default(h) == IF h = None THEN <<"w","n","a","m">> ELSE h[1]

(***************************************************************************)
(* lib.rs: route_to_processor                                              *)
(***************************************************************************)
ShardCount == 10

\* A hasher keyed per process (what RandomState::new().build_hasher() gives).
RandomStateHasher(epoch) == [ k0 |-> <<epoch, 0, 0, 0>>, k1 |-> <<0, 0, 0, 0>> ]

\* DefaultHasher::new(): SipHash-1-3 with the key (0, 0) in every process.
DefaultHasher_new(epoch) == [ k0 |-> <<0, 0, 0, 0>>, k1 |-> <<0, 0, 0, 0>> ]

\* body.hash(&mut hasher); hasher.finish(): the bytes, then 0xff.
hash_value(hasher, body) ==
    SipHash13(hasher.k0, hasher.k1, as_bytes(body) \o <<255>>)

\* (hash_value % 10) as u32
do_index_of(epoch, body) ==
    Mod64(hash_value(DefaultHasher_new(epoch), body), ShardCount)

\* The table with the hint of Western Europe taken from the row above it.
region_table_wrong_hint(region) ==
    CASE region = "WesternNorthAmerica" -> <<"WNAM_PROCESSOR", "wnam", "wnam", FALSE>>
      [] region = "EasternNorthAmerica" -> <<"ENAM_PROCESSOR", "enam", "enam", FALSE>>
      [] region = "WesternEurope" -> <<"WEUR_PROCESSOR", "weur", "enam", FALSE>>
      [] region = "EasternEurope" -> <<"EEUR_PROCESSOR", "eeur", "eeur", TRUE>>
      [] region = "AsiaPacific" -> <<"APAC_PROCESSOR", "apac", "apac", FALSE>>
      [] region = "Oceania" -> <<"OC_PROCESSOR", "oc", "oc", FALSE>>
      [] region = "Africa" -> <<"AF_PROCESSOR", "af", "af", FALSE>>
      [] region = "MiddleEast" -> <<"ME_PROCESSOR", "me", "me", FALSE>>

\* (namespace_name, region_code, location_hint, is_eu) = match region {..}
region_table(region) ==
    CASE region = "WesternNorthAmerica" -> <<"WNAM_PROCESSOR", "wnam", "wnam", FALSE>>
      [] region = "EasternNorthAmerica" -> <<"ENAM_PROCESSOR", "enam", "enam", FALSE>>
      [] region = "WesternEurope" -> <<"WEUR_PROCESSOR", "weur", "weur", TRUE>>
      [] region = "EasternEurope" -> <<"EEUR_PROCESSOR", "eeur", "eeur", TRUE>>
      [] region = "AsiaPacific" -> <<"APAC_PROCESSOR", "apac", "apac", FALSE>>
      [] region = "Oceania" -> <<"OC_PROCESSOR", "oc", "oc", FALSE>>
      [] region = "Africa" -> <<"AF_PROCESSOR", "af", "af", FALSE>>
      [] region = "MiddleEast" -> <<"ME_PROCESSOR", "me", "me", FALSE>>

\* format!("{}-processor-{}", region_code, do_index)
do_name_of(region_code, do_index) ==
    region_code \o "-processor-" \o ToString(do_index)

\* The stub route_to_processor builds: the namespace, the actor name and
\* the location hint it is fetched with.
route_target(epoch, region, body) ==
    LET row == region_table(region)
        idx == do_index_of(epoch, body)
    IN  [ namespace |-> row[1], region_code |-> row[2],
          location_hint |-> row[3], is_eu |-> row[4],
          do_index |-> idx, do_name |-> do_name_of(row[2], idx) ]

\* The request forwarded to the Durable Object: Content-Type, X-Request-Type
\* when not empty, X-Log-Level, and the body.
do_request(body, request_type, log_level) ==
    [ body |-> body,
      request_type |-> IF request_type = <<>> THEN None ELSE Some(request_type),
      log_level |-> IF log_level = "Debug" THEN Some(<<"d","e","b","u","g">>)
                    ELSE Some(<<"i","n","f","o">>) ]

(***************************************************************************)
(* reqwest::header: HeaderName::from_str, HeaderValue::from_str, HeaderMap *)
(***************************************************************************)
\* The characters of a header name (RFC 7230 token), the grave accent left out.
TokenChars ==
    { UpperLetters[i] : i \in 1..26 } \cup { LowerLetters[i] : i \in 1..26 }
    \cup { "0","1","2","3","4","5","6","7","8","9" }
    \cup { "!","#","$","%","&","'","*","+","-",".","^","_","|","~" }

\* Visible ASCII (32 to 126) or a tab.
IsVisibleAscii(c) ==
    c = "\t" \/ \E i \in 1..Len(AsciiPrintable) : AsciiPrintable[i] = c

\* HeaderName::from_str(key).is_ok()
HeaderNameOk(key) == key # <<>> /\ \A i \in 1..Len(key) : key[i] \in TokenChars

\* HeaderValue::from_str(value).is_ok(): every byte is a tab, or 32 and
\* above and not 127; the bytes of a character above U+007F pass.
HeaderValue_from_str_ok(value) ==
    \A i \in 1..Len(value) : IsVisibleAscii(value[i]) \/ value[i] \in NonAscii

\* HeaderValue::to_str().is_ok(): every byte is a tab or visible ASCII.
HeaderValue_to_str_ok(value) ==
    \A i \in 1..Len(value) : IsVisibleAscii(value[i])

\* The HeaderName of a valid key: its lower-case form.
HeaderNameOf(key) == Str(to_lowercase(key))

\* HeaderMap::insert: the value of the name is replaced.
HeaderInsert(map, name, value) ==
    [ n \in (DOMAIN map) \cup {name} |-> IF n = name THEN value ELSE map[n] ]

EmptyHeaderMap == [ n \in {} |-> <<>> ]

RECURSIVE ParseHeaders_skipping_invalid(_, _)
\* A loop that leaves out the headers that fail validation.
ParseHeaders_skipping_invalid(entries, map) ==
    IF entries = <<>> THEN [ ok |-> TRUE, map |-> map ]
    ELSE LET e == Head(entries)
         IN  IF ~HeaderNameOk(e.k) \/ ~HeaderValue_from_str_ok(e.v)
             THEN ParseHeaders_skipping_invalid(Tail(entries), map)
             ELSE ParseHeaders_skipping_invalid(Tail(entries),
                    HeaderInsert(map, HeaderNameOf(e.k), e.v))

RECURSIVE ParseHeaders(_, _)
\* The loop "for (key, value) in &data.headers" over the entries in the
\* order the HashMap yields them: the map built, or the first error.
ParseHeaders(entries, map) ==
    IF entries = <<>> THEN [ ok |-> TRUE, map |-> map ]
    ELSE LET e == Head(entries)
         IN  IF ~HeaderNameOk(e.k)
             THEN [ ok |-> FALSE, err |-> "Invalid header name: " \o Str(e.k) ]
             ELSE IF ~HeaderValue_from_str_ok(e.v)
             THEN [ ok |-> FALSE, err |-> "Invalid header value: " \o Str(e.v) ]
             ELSE ParseHeaders(Tail(entries),
                               HeaderInsert(map, HeaderNameOf(e.k), e.v))

\* The orders in which a HashMap with the entries S can be iterated.
IterationOrders(S) ==
    { o \in [1..Cardinality(S) -> S] :
        \A i, j \in 1..Cardinality(S) : i # j => o[i] # o[j] }

(***************************************************************************)
(* serde_json::Value and its text                                          *)
(***************************************************************************)
VBool(b) == [ t |-> "Bool", b |-> b ]
VNumber(n) == [ t |-> "Number", n |-> n ]
VString(s) == [ t |-> "String", s |-> s ]
VNull == [ t |-> "Null" ]
VArray(items) == [ t |-> "Array", items |-> items ]
VObject(members) == [ t |-> "Object", members |-> members ]

\* The escape of one character inside a JSON string.
JsonEscapeChar(c) ==
    CASE c = "\"" -> <<"\\", "\"">>
      [] c = "\\" -> <<"\\", "\\">>
      [] c = "\n" -> <<"\\", "n">>
      [] c = "\r" -> <<"\\", "r">>
      [] c = "\t" -> <<"\\", "t">>
      [] OTHER -> <<c>>

\* The decimal digits of a natural number.
RECURSIVE Digits(_)
Digits(n) ==
    IF n < 10 THEN <<AsciiPrintable[17 + n]>>
    ELSE Digits(n \div 10) \o <<AsciiPrintable[17 + (n % 10)]>>

\* bool::to_string
BoolText(b) == IF b THEN <<"t","r","u","e">> ELSE <<"f","a","l","s","e">>

\* serde_json::Number::to_string for an integer.
NumberText(n) == IF n < 0 THEN <<"-">> \o Digits(0 - n) ELSE Digits(n)

\* A JSON string: the quotes and the escaped characters.
JsonStringText(s) ==
    <<"\"">> \o Flatten([i \in 1..Len(s) |-> JsonEscapeChar(s[i])]) \o <<"\"">>

RECURSIVE ValueToString(_)
\* Value::to_string(): the compact JSON text.
ValueToString(value) ==
    CASE value.t = "Bool" -> BoolText(value.b)
      [] value.t = "Number" -> NumberText(value.n)
      [] value.t = "String" -> JsonStringText(value.s)
      [] value.t = "Null" -> <<"n","u","l","l">>
      [] value.t = "Array" ->
            <<"[">>
            \o Flatten([i \in 1..Len(value.items) |->
                          (IF i = 1 THEN <<>> ELSE <<",">>)
                          \o ValueToString(value.items[i])])
            \o <<"]">>
      [] value.t = "Object" ->
            <<"{">>
            \o Flatten([i \in 1..Len(value.members) |->
                          (IF i = 1 THEN <<>> ELSE <<",">>)
                          \o JsonStringText(value.members[i][1]) \o <<":">>
                          \o ValueToString(value.members[i][2])])
            \o <<"}">>

(***************************************************************************)
(* soap_handler.rs: the envelope                                           *)
(***************************************************************************)
\* str::replace(c, rep)
Replace(s, c, rep) ==
    Flatten([i \in 1..Len(s) |-> IF s[i] = c THEN rep ELSE <<s[i]>>])

\* html_escape: the five replacements, in the order of the code.
html_escape(s) ==
    Replace(Replace(Replace(Replace(Replace(s,
        "&", <<"&","a","m","p",";">>),
        "<", <<"&","l","t",";">>),
        ">", <<"&","g","t",";">>),
        "\"", <<"&","q","u","o","t",";">>),
        "'", <<"&","a","p","o","s",";">>)

\* char::is_numeric on the model's alphabet.
IsNumeric(c) == c \in { "0","1","2","3","4","5","6","7","8","9" }

\* key.chars().all(|c| c.is_numeric()) ? "__numeric_" + key : key
xml_key(key) ==
    IF \A i \in 1..Len(key) : IsNumeric(key[i])
    THEN <<"__numeric_">> \o key
    ELSE key

\* A type hint that reads numbers out of strings.
type_hint_sniffing(value) ==
    CASE value.t = "Bool" -> "xsd:boolean"
      [] value.t = "Number" -> "xsd:int"
      [] value.t = "String" ->
            IF value.s # <<>> /\ \A i \in 1..Len(value.s) : IsNumeric(value.s[i])
            THEN "xsd:int" ELSE "xsd:string"
      [] OTHER -> "xsd:string"

\* The type hint of the match on the value.
type_hint(value) ==
    CASE value.t = "Bool" -> "xsd:boolean"
      [] value.t = "Number" -> "xsd:int"
      [] OTHER -> "xsd:string"

\* The value text of the match on the value.
value_str(value) ==
    CASE value.t = "Bool" -> BoolText(value.b)
      [] value.t = "Number" -> NumberText(value.n)
      [] value.t = "String" -> html_escape(value.s)
      [] value.t = "Null" -> <<>>
      [] OTHER -> ValueToString(value)

\* format!("<{} xsi:type=\"{}\">{}</{}>", xml_key, type_hint, value_str, xml_key)
param_element(param) ==
    LET k == xml_key(param[1])
    IN  <<"<">> \o k \o <<" xsi:type=\"", type_hint(param[2]), "\">">>
        \o value_str(param[2]) \o <<"</">> \o k \o <<">">>

\* The loop run over an insertion-ordered map of the parameters: one
\* element per key, at the place of its first pair, with its last value.
params_loop_as_map(params) ==
    LET last(k) == CHOOSE i \in 1..Len(params) :
                      /\ params[i][1] = k
                      /\ \A j \in 1..Len(params) : params[j][1] = k => j <= i
    IN  Flatten([i \in 1..Len(params) |->
                   IF \E j \in 1..(i - 1) : params[j][1] = params[i][1]
                   THEN <<>>
                   ELSE param_element(<<params[i][1], params[last(params[i][1])][2]>>)])

\* "for (key, value) in &data.params": the elements in the order of the Vec.
params_loop(params) ==
    Flatten([i \in 1..Len(params) |-> param_element(params[i])])

\* soap_body_content
soap_body_content(data) ==
    <<"<ns1766:">> \o data.action \o <<" xmlns:ns1766=\"">> \o data.namespace
    \o <<"\">">> \o params_loop(data.params)
    \o <<"</ns1766:">> \o data.action \o <<">">>

EnvelopeOpen ==
    "<?xml version=\"1.0\" encoding=\"ISO-8859-1\"?><SOAP-ENV:Envelope SOAP-ENV:encodingStyle=\"http://schemas.xmlsoap.org/soap/encoding/\" xmlns:SOAP-ENV=\"http://schemas.xmlsoap.org/soap/envelope/\" xmlns:xsd=\"http://www.w3.org/2001/XMLSchema\" xmlns:xsi=\"http://www.w3.org/2001/XMLSchema-instance\" xmlns:SOAP-ENC=\"http://schemas.xmlsoap.org/soap/encoding/\"><SOAP-ENV:Body>"

EnvelopeClose == "</SOAP-ENV:Body></SOAP-ENV:Envelope>"

\* soap_envelope
soap_envelope(data) ==
    <<EnvelopeOpen>> \o soap_body_content(data) \o <<EnvelopeClose>>

\* Fixed headers set only where the caller gave none.
soap_headers_caller_first(map) ==
    LET put(m, n, v) == IF n \in DOMAIN m THEN m ELSE HeaderInsert(m, n, v)
    IN  put(put(put(map, "content-type", <<"text/xml; charset=ISO-8859-1">>),
                "soapaction", <<"\"\"">>),
            "user-agent", <<"NuSOAP/0.9.17 (1.123)">>)

\* The three inserts that follow the loop over the caller's headers.
soap_fixed_headers(map) ==
    HeaderInsert(
      HeaderInsert(
        HeaderInsert(map, "content-type", <<"text/xml; charset=ISO-8859-1">>),
        "soapaction", <<"\"\"">>),
      "user-agent", <<"NuSOAP/0.9.17 (1.123)">>)

(***************************************************************************)
(* http_handler.rs: the pass-through translator                            *)
(***************************************************************************)
HttpMethods == { "Get", "Post", "Put", "Delete", "Patch", "Head", "Options" }

\* default_method()
default_method == "Post"

\* "if !headers.contains_key("user-agent") { headers.insert(..) }"
http_default_headers(map) ==
    IF "user-agent" \in DOMAIN map THEN map
    ELSE HeaderInsert(map, "user-agent", <<"ApiProxy/1.0">>)

\* A placement that puts the params in the query string for GET only.
params_in_query_get_only(method) == method = "Get"

\* matches!(data.method, Get | Head | Delete): params go to the query string.
params_in_query(method) == method \in { "Get", "Head", "Delete" }

\* RequestBuilder::json: the Content-Type is set where the caller gave none.
json_content_type(map) ==
    IF "content-type" \in DOMAIN map THEN map
    ELSE HeaderInsert(map, "content-type", <<"application/json">>)

(***************************************************************************)
(* The response reducer of both handlers                                   *)
(***************************************************************************)
\* StatusCode::canonical_reason for the statuses of the model; None for a
\* status with no registered reason phrase.
canonical_reason(status) ==
    CASE status = 200 -> Some("OK")
      [] status = 201 -> Some("Created")
      [] status = 204 -> Some("No Content")
      [] status = 301 -> Some("Moved Permanently")
      [] status = 304 -> Some("Not Modified")
      [] status = 400 -> Some("Bad Request")
      [] status = 403 -> Some("Forbidden")
      [] status = 404 -> Some("Not Found")
      [] status = 500 -> Some("Internal Server Error")
      [] status = 503 -> Some("Service Unavailable")
      [] OTHER -> None

\* canonical_reason().unwrap_or("Unknown Status")
status_text(status) ==
    IF canonical_reason(status) = None THEN "Unknown Status"
    ELSE canonical_reason(status)[1]

\* The value of a text of decimal digits.
RECURSIVE DigitsValue(_)
DigitsValue(s) ==
    IF s = <<>> THEN 0
    ELSE 10 * DigitsValue(SubSeq(s, 1, Len(s) - 1)) + (Ord(s[Len(s)]) - 48)

\* A JSON string with no escape in it: its content, or Nil.
JsonPlainString(s) ==
    IF /\ Len(s) >= 2 /\ s[1] = "\"" /\ s[Len(s)] = "\""
       /\ \A i \in 2..(Len(s) - 1) :
             s[i] \notin { "\"", "\\", "\n", "\r", "\t" }
    THEN VString(SubSeq(s, 2, Len(s) - 1))
    ELSE Nil

\* A JSON scalar: null, true, false, an unsigned integer, a plain string.
JsonScalar(s) ==
    CASE s = <<"n","u","l","l">> -> VNull
      [] s = <<"t","r","u","e">> -> VBool(TRUE)
      [] s = <<"f","a","l","s","e">> -> VBool(FALSE)
      [] /\ s # <<>> /\ \A i \in 1..Len(s) : IsNumeric(s[i])
         /\ (Len(s) = 1 \/ s[1] # "0") -> VNumber(DigitsValue(s))
      [] OTHER -> JsonPlainString(s)

\* serde_json::from_str::<Value>(text).ok() on the texts of the model:
\* a scalar, the empty object, or an object of one member with a scalar
\* value, written without white space.  Nil is a parse error.
from_str_json(text) ==
    IF JsonScalar(text) # Nil THEN JsonScalar(text)
    ELSE IF Len(text) >= 2 /\ text[1] = "{" /\ text[Len(text)] = "}"
    THEN LET inner == SubSeq(text, 2, Len(text) - 1)
             splits == { i \in 1..Len(inner) :
                           /\ inner[i] = ":"
                           /\ JsonPlainString(SubSeq(inner, 1, i - 1)) # Nil
                           /\ JsonScalar(SubSeq(inner, i + 1, Len(inner))) # Nil }
         IN  IF inner = <<>> THEN VObject(<<>>)
             ELSE IF splits = {} THEN Nil
             ELSE LET i == CHOOSE j \in splits : TRUE
                  IN  VObject(<< << JsonPlainString(SubSeq(inner, 1, i - 1)).s,
                                    JsonScalar(SubSeq(inner, i + 1, Len(inner))) >> >>)
    ELSE Nil

\* The response headers kept: those whose value to_str() accepts.
\* HashMap::insert: the value of a key already present is replaced.
HashMap_insert(map, key, value) ==
    [ n \in DOMAIN map \cup { key } |-> IF n = key THEN value ELSE map[n] ]

RECURSIVE response_header_loop(_, _, _)
\* "for (key, value) in response.headers()" from the i-th header on.
response_header_loop(headers, i, header_map) ==
    IF i > Len(headers) THEN header_map
    ELSE response_header_loop(headers, i + 1,
           IF HeaderValue_to_str_ok(headers[i].v)
           THEN HashMap_insert(header_map, headers[i].k, headers[i].v)
           ELSE header_map)

\* The headers of the response, in order of arrival, as the HashMap.
response_header_map(headers) == response_header_loop(headers, 1, <<>>)

\* serde_json::from_str(&text).unwrap_or_else(|_| Value::String(text.clone()))
body_value(text) ==
    IF from_str_json(text) # Nil THEN from_str_json(text) ELSE VString(text)

\* A reducer that takes every status below 400 for a success.
reduce_below_400(status, headers, text) ==
    IF status >= 200 /\ status < 400
    THEN [ variant |-> "Success", status |-> status,
           headers |-> response_header_map(headers), body |-> body_value(text) ]
    ELSE [ variant |-> "Error", status |-> status, message |-> status_text(status) ]

\* "if (200..300).contains(&status) { Success } else { Error }"
reduce(status, headers, text) ==
    IF status >= 200 /\ status < 300
    THEN [ variant |-> "Success", status |-> status,
           headers |-> response_header_map(headers), body |-> body_value(text) ]
    ELSE [ variant |-> "Error", status |-> status, message |-> status_text(status) ]

(***************************************************************************)
(* The inbound JSON schemas (serde Deserialize)                            *)
(***************************************************************************)
T_u == <<"u">>
T_getDIDCountry == <<"g","e","t","D","I","D","C","o","u","n","t","r","y">>
T_urn_getDIDCountry == <<"u","r","n",":">> \o T_getDIDCountry
T_format == <<"f","o","r","m","a","t">>
T_json == <<"j","s","o","n">>

SoapData(action, namespace, params, headers) ==
    [ url |-> T_u, action |-> action, namespace |-> namespace,
      params |-> params, headers |-> headers ]

HttpData(method, params, headers) ==
    [ url |-> T_u, method |-> method, params |-> params, headers |-> headers ]

Header(k, v) == [ k |-> k, v |-> v ]

\* The request of the specification's example, its values given as strings.
SoapExample ==
    SoapData(T_getDIDCountry, T_urn_getDIDCountry,
             << <<(<<"1">>), VString(<<"4","4">>)>>,
                <<T_format, VString(T_json)>> >>, {})

\* req.json::<SoapRequestData>() on the bodies of the model; Nil is Err(e).
parse_SoapRequestData(body) ==
    CASE body = Body_soap_one ->
           SoapData(<<"a">>, <<"n">>, << <<(<<"1">>), VNumber(44)>> >>, {})
      [] body = Body_bad_header ->
           SoapData(<<"a">>, <<"n">>, <<>>,
                    { Header(<<"B","a","d"," ","N","a","m","e">>, <<"v">>) })
      [] body = Body_soap_example -> SoapExample
      [] OTHER -> Nil

\* req.json::<RequestData>() on the bodies of the model; Nil is Err(e).
\* A missing method is default_method(); unknown fields are ignored.
parse_RequestData(body) ==
    CASE body = Body_http_default -> HttpData(default_method, {}, {})
      [] body = Body_http_get ->
           HttpData("Get", { Header(<<"q">>, <<"x">>) },
                    { Header(<<"X","-","A">>, <<"1">>) })
      [] body = Body_bad_header ->
           HttpData(default_method, {},
                    { Header(<<"B","a","d"," ","N","a","m","e">>, <<"v">>) })
      [] OTHER -> Nil

(***************************************************************************)
(* The SOAP requests the translator is checked on                          *)
(***************************************************************************)
\* The longest parameter list, and the largest header map.
MaxParams == 2
MaxHeaders == 2

\* Parameter pairs: the example's pairs (the 44 as a string and as a
\* number), a value with a line break and the five escaped characters,
\* a boolean, an empty key with a null, an array.
ParamPool ==
    { <<(<<"1">>), VString(<<"4","4">>)>>,
      <<(<<"1">>), VNumber(44)>>,
      <<T_format, VString(T_json)>>,
      <<(<<"a">>), VString(<<"<","\n",">","&","\"","'">>)>>,
      <<(<<"b">>), VBool(TRUE)>>,
      <<(<<>>), VNull>>,
      <<(<<"c","2">>), VArray(<<VNumber(1), VString(<<"z">>)>>)>> }

ParamLists == UNION { [1..n -> ParamPool] : n \in 0..MaxParams }

\* (action, namespace): the example's, and a pair with a line break.
SoapActions ==
    { <<T_getDIDCountry, T_urn_getDIDCountry>>,
      <<(<<"g","e","t">>), (<<"u","r","n",":","\n","g">>)>> }

\* Caller headers: the three fixed names in other letter cases, one name
\* in two spellings, a plain header, a value with a character above
\* U+007F, a bad name and a bad value.
HeaderPool ==
    { Header(<<"C","o","n","t","e","n","t","-","T","y","p","e">>, <<"a","/","b">>),
      Header(<<"S","O","A","P","A","c","t","i","o","n">>, <<"r","u","n">>),
      Header(<<"u","s","e","r","-","a","g","e","n","t">>, <<"m","e">>),
      Header(<<"X","-","A">>, <<"1">>),
      Header(<<"x","-","a">>, <<"2">>),
      Header(<<"X","-","B">>, <<"3">>),
      Header(<<"X","-","D">>, <<"\\xE9">>),
      Header(<<"B","a","d"," ","N","a","m","e">>, <<"v">>),
      Header(<<"X","-","C">>, <<"a","\n","b">>) }

\* HashMap<String, String>: the keys of the pool are distinct strings.
HeaderMaps == { h \in SUBSET HeaderPool : Cardinality(h) <= MaxHeaders }

SoapCases ==
    { SoapData(T_getDIDCountry, T_urn_getDIDCountry, p, {}) : p \in ParamLists }
    \cup { SoapData(a[1], a[2], <<>>, {}) : a \in SoapActions }
    \cup { SoapData(T_getDIDCountry, T_urn_getDIDCountry, <<>>, h) :
              h \in HeaderMaps }

\* The JSON text a caller posts for a SoapRequestData.
SoapJson(d) ==
    LET hs == CHOOSE o \in IterationOrders(d.headers) : TRUE
    IN  ValueToString(VObject(<<
          <<(<<"u","r","l">>), VString(d.url)>>,
          <<(<<"a","c","t","i","o","n">>), VString(d.action)>>,
          <<(<<"n","a","m","e","s","p","a","c","e">>), VString(d.namespace)>>,
          <<(<<"p","a","r","a","m","s">>),
            VArray([i \in 1..Len(d.params) |->
                      VArray(<<VString(d.params[i][1]), d.params[i][2]>>)])>>,
          <<(<<"h","e","a","d","e","r","s">>),
            VObject([i \in 1..Len(hs) |-> <<hs[i].k, VString(hs[i].v)>>])>> >>))

(***************************************************************************)
(* The HTTP requests the pass-through translator is checked on             *)
(***************************************************************************)
\* Deserialize for HttpMethod: the text lower-cased and matched; Nil is
\* the unknown_variant error.
HttpMethod_deserialize(text) ==
    LET t == to_lowercase(text)
    IN  CASE t = <<"g","e","t">> -> "Get"
          [] t = <<"p","o","s","t">> -> "Post"
          [] t = <<"p","u","t">> -> "Put"
          [] t = <<"d","e","l","e","t","e">> -> "Delete"
          [] t = <<"p","a","t","c","h">> -> "Patch"
          [] t = <<"h","e","a","d">> -> "Head"
          [] t = <<"o","p","t","i","o","n","s">> -> "Options"
          [] OTHER -> Nil

\* The "method" field of the inbound JSON: absent, or one of these texts.
HttpMethodTexts ==
    Opt({ <<"g","e","t">>, <<"G","E","T">>, <<"p","o","s","t">>,
          <<"P","u","t">>, <<"d","e","l","e","t","e">>,
          <<"p","a","t","c","h">>, <<"H","E","A","D">>,
          <<"o","p","t","i","o","n","s">> })

\* params: HashMap<String, String>
HttpParamMaps ==
    { {},
      { Header(<<"q">>, <<"x">>) },
      { Header(<<"q">>, <<"x">>), Header(<<"n">>, <<"1">>) } }

\* The inbound JSON objects: every method with every params map, and
\* three methods with every header map.
HttpCases ==
    { [ method |-> m, params |-> p, headers |-> {} ] :
        m \in HttpMethodTexts, p \in HttpParamMaps }
    \cup { [ method |-> m, params |-> { Header(<<"q">>, <<"x">>) },
              headers |-> h ] :
              m \in { None, Some(<<"g","e","t">>), Some(<<"P","u","t">>) },
              h \in HeaderMaps }

\* The RequestData serde builds from an inbound JSON object.
RequestData_of(c) ==
    HttpData(IF c.method = None THEN default_method
             ELSE HttpMethod_deserialize(c.method[1]),
             c.params, c.headers)

\* The members of a JSON object for a HashMap<String, String>.
MapMembers(entries) ==
    LET es == CHOOSE o \in IterationOrders(entries) : TRUE
    IN  [i \in 1..Len(es) |-> <<es[i].k, VString(es[i].v)>>]

\* The JSON text a caller posts for an HTTP request.
HttpJson(c) ==
    ValueToString(VObject(
      << <<(<<"u","r","l">>), VString(T_u)>> >>
      \o (IF c.method = None THEN <<>>
          ELSE << <<(<<"m","e","t","h","o","d">>), VString(c.method[1])>> >>)
      \o << <<(<<"p","a","r","a","m","s">>), VObject(MapMembers(c.params))>>,
            <<(<<"h","e","a","d","e","r","s">>), VObject(MapMembers(c.headers))>> >>))

(***************************************************************************)
(* The upstream server                                                     *)
(***************************************************************************)
UpstreamStatuses == { 200, 201, 299, 199, 304, 404, 500, 599 }

UpstreamBodies ==
    { <<>>,
      <<"{","\"","a","\"",":","1","}">>,
      <<"<","x","/",">">>,
      <<"\"","p","w","\"">>,
      <<"4","2">> }

UpstreamHeaderSets ==
    { <<>>,
      << Header("content-type", <<"a","/","b">>) >>,
      << Header("x-id", <<"7">>), Header("x-obs", <<"\\xE9">>) >>,
      << Header("x-id", <<"7">>), Header("x-id", <<"8">>) >>,
      << Header("x-id", <<"8">>), Header("x-id", <<"7">>) >>,
      << Header("x-id", <<"7">>), Header("x-id", <<"\\xE9">>) >> }

\* An answer of the upstream: its status and headers, the body it sends,
\* and whether the handler has read that body: "pending", "ok", "failed".
UpstreamResponse(status, headers, text) ==
    [ status |-> status, headers |-> headers, text |-> text,
      text_read |-> "pending" ]

\* What the upstream may answer: every status with one body, and every
\* body and header set with a 2xx and a non-2xx status.
Upstreams ==
    { UpstreamResponse(st, <<>>, <<"{","\"","a","\"",":","1","}">>) :
        st \in UpstreamStatuses }
    \cup { UpstreamResponse(st, <<>>, b) : st \in {201, 404}, b \in UpstreamBodies }
    \cup { UpstreamResponse(st, h, <<"4","2">>) :
             st \in {201, 404}, h \in UpstreamHeaderSets }

(***************************************************************************)
(* State                                                                   *)
(***************************************************************************)
VARIABLES
    env,        \* the deployment: its AUTH_TOKEN secret, when configured,
                \* and the Durable Object namespaces that are bound
    epoch,      \* the incarnation of the process that serves the request
    pc,         \* where the request is in the pipeline
    req,        \* the inbound request
    auth,       \* what validate_token returned: "Pending", "Ok", "Err"
    region,     \* the ProcessorRegion of the request, "Unset" before
    target,     \* the stub route_to_processor built
    doReq,      \* the request forwarded to the Durable Object
    data,       \* the parsed RequestData or SoapRequestData
    outbound,   \* the request sent to the upstream URL
    upstream,   \* the upstream's answer
    doResp,     \* the response the Durable Object's fetch returned
    resp,       \* the response returned to the caller
    did,        \* the steps taken so far on this request
    sent        \* the calls made to the upstream URL for this request

vars == << env, epoch, pc, req, auth, region, target, doReq, data,
           outbound, upstream, doResp, resp, did, sent >>

TextResponse(status, text) ==
    [ status |-> status, body |-> [ kind |-> "text", text |-> text ] ]

\* Response::from_json(&api_response): status 200, the ApiResponse as JSON.
JsonResponse(api) ==
    [ status |-> 200, body |-> [ kind |-> "json", api |-> api ] ]

\* fetch returns Err(e) through "?": no response is built by the program
\* (status 0), the Workers runtime answers for it.
FetchErr(e) ==
    [ status |-> 0, body |-> [ kind |-> "fetch_err", text |-> e ] ]

\* The namespaces the wrangler configuration may bind, and the
\* deployments considered: every namespace bound, and one missing.
ProcessorNamespaces ==
    { "WNAM_PROCESSOR", "ENAM_PROCESSOR", "WEUR_PROCESSOR", "EEUR_PROCESSOR",
      "APAC_PROCESSOR", "OC_PROCESSOR", "AF_PROCESSOR", "ME_PROCESSOR" }

BindingSets ==
    { ProcessorNamespaces, ProcessorNamespaces \ { "ENAM_PROCESSOR" } }

Env(secret, bindings) == [ AUTH_TOKEN |-> secret, bindings |-> bindings ]

Envs == { Env(secret, b) : secret \in Secrets, b \in BindingSets }

\* The state of a process with no request in hand.
Fresh ==
    /\ pc = "Idle"
    /\ req = Nil
    /\ auth = "Pending"
    /\ region = "Unset"
    /\ target = Nil
    /\ doReq = Nil
    /\ data = Nil
    /\ outbound = Nil
    /\ upstream = Nil
    /\ doResp = Nil
    /\ resp = Nil
    /\ did = {}
    /\ sent = 0

Init ==
    /\ env \in Envs
    /\ epoch = 0
    /\ Fresh

(***************************************************************************)
(* lib.rs: fetch                                                           *)
(***************************************************************************)
\* A request arrives: Request::try_from(req)?
Receive ==
    /\ pc = "Idle"
    /\ \E r \in Requests : req' = r
    /\ pc' = "Authenticating"
    /\ UNCHANGED << env, epoch, doResp, auth, region, target, doReq, data,
                    outbound, upstream, resp, did, sent >>

\* A fetch that goes on whatever validate_token returned.
auth_gate_open(result) == TRUE

\* "if let Err(_) = auth::validate_token(..) { return forbidden }":
\* TRUE when the pipeline goes on.
auth_gate(result) == result = "Ok"

\* Lines 32 to 35: the token is validated; a failure returns the 403.
Authenticate ==
    /\ pc = "Authenticating"
    /\ LET result == validate_token(req.authorization, env.AUTH_TOKEN)
       IN  /\ auth' = result
           /\ IF auth_gate(result)
              THEN /\ pc' = "Classifying"
                   /\ resp' = resp
              ELSE /\ pc' = "Done"
                   /\ resp' = TextResponse(Forbidden.status, Forbidden.body)
    /\ UNCHANGED << env, epoch, doResp, req, region, target, doReq, data,
                    outbound, upstream, did, sent >>

\* Lines 37 to 69: the log level, the region header and the request type
\* are read, and worker_req.text() is called: fetch waits for the body.
ReadHeaders ==
    /\ pc = "Classifying"
    /\ did' = did \cup { "read_body" }
    /\ pc' = "ReadingBody"
    /\ UNCHANGED << env, epoch, doResp, req, auth, region, target, doReq, data,
                    outbound, upstream, resp, sent >>

\* Lines 69 to 85: the body arrives and the region header is mapped to
\* its region; or the read fails and fetch returns the error.
Classify ==
    /\ pc = "ReadingBody"
    /\ \/ /\ region' = region_of_header(region_header_or_default(req.region))
          /\ did' = did \cup { "classify" }
          /\ pc' = "Routing"
          /\ resp' = resp
       \/ /\ resp' = FetchErr(<<"body read failed">>)
          /\ pc' = "Done"
          /\ UNCHANGED << region, did >>
    /\ UNCHANGED << env, epoch, doResp, req, auth, target, doReq, data,
                    outbound, upstream, sent >>

\* Line 88, route_to_processor: the shard and the stub are chosen and the
\* request is forwarded to the Durable Object.
Route ==
    /\ pc = "Routing"
    /\ LET namespace_name == region_table(region)[1]
       IN  IF namespace_name \in env.bindings
           THEN /\ target' = route_target(epoch, region, req.body)
                /\ doReq' = do_request(req.body,
                               UnwrapOrDefault(req.request_type),
                               LogLevel_from_header(UnwrapOrDefault(req.log_level)))
                /\ did' = did \cup { "route", "forward" }
                /\ pc' = "Dispatched"
                /\ resp' = resp
           ELSE \* env.durable_object(namespace_name)? returns the error
                /\ resp' = FetchErr(<<"Binding ", namespace_name, " is undefined.">>)
                /\ did' = did \cup { "route" }
                /\ pc' = "Done"
                /\ UNCHANGED << target, doReq >>
    /\ UNCHANGED << env, epoch, doResp, req, auth, region, data, outbound,
                    upstream, sent >>

\* The stages of a request inside the Durable Object, from the forward
\* to the return of its response.
DoStages ==
    { "Dispatched", "Tracing", "ReadingTrace", "Parsing", "Translating",
      "Forwarding", "Reducing", "ReadingResponse", "Returning" }

\* Line 162, stub.fetch_with_request(do_request).await, awaited while the
\* Durable Object runs: the call fails at any of its stages (the object
\* is unreachable or reset, or its fetch returns Err, processor_macro.rs
\* 29, 42, 56, 64, 68, 82, 90, 94) and fetch returns the error through
\* line 88, whatever the Durable Object had done or built.
DoFetchFails ==
    /\ pc \in DoStages
    /\ resp' = FetchErr(<<"durable object fetch failed">>)
    /\ pc' = "Done"
    /\ UNCHANGED << env, epoch, doResp, req, auth, region, target, doReq, data,
                    outbound, upstream, did, sent >>

(***************************************************************************)
(* processor_macro.rs: the Durable Object's fetch                          *)
(***************************************************************************)
\* request_type.to_lowercase() == "soap"
is_soap(request) ==
    to_lowercase(UnwrapOrDefault(request.request_type)) = <<"s","o","a","p">>

\* Lines 26 to 33: the processor reads its log level and calls
\* get_actual_colo(), which fetches the Cloudflare trace: it waits.
ProcessorFetch ==
    /\ pc = "Dispatched"
    /\ did' = did \cup { "colo_trace" }
    /\ pc' = "Tracing"
    /\ UNCHANGED << env, epoch, doResp, req, auth, region, target, doReq, data,
                    outbound, upstream, resp, sent >>

\* common.rs line 14, Fetch::Request(request).send().await?: the trace
\* answers and trace_response.text() is called, the processor waits
\* again; or the send fails, get_actual_colo gives "unknown", which is
\* logged, the request type is read and req.json() is called.
TraceResponds ==
    /\ pc = "Tracing"
    /\ \/ pc' = "ReadingTrace"
       \/ pc' = "Parsing"
    /\ UNCHANGED << env, epoch, doResp, req, auth, region, target, doReq, data,
                    outbound, upstream, resp, did, sent >>

\* common.rs line 15, trace_response.text().await?, to line 49 (75 for
\* HTTP) of the processor: the text arrives or the read fails, the
\* datacenter or "unknown" is logged, the request type is read and
\* req.json() is called: the processor waits for its body.
ProcessorTraced ==
    /\ pc = "ReadingTrace"
    /\ pc' = "Parsing"
    /\ UNCHANGED << env, epoch, doResp, req, auth, region, target, doReq, data,
                    outbound, upstream, resp, did, sent >>

\* Lines 49 to 58 (75 to 84 for HTTP): the body is parsed by the schema
\* of the request type; a parse error returns the 400.
ProcessorParse ==
    /\ pc = "Parsing"
    /\ LET parsed == IF is_soap(doReq)
                     THEN parse_SoapRequestData(doReq.body)
                     ELSE parse_RequestData(doReq.body)
       IN  IF parsed = Nil
           THEN /\ doResp' = TextResponse(400,
                             IF is_soap(doReq) THEN "Invalid SOAP JSON: {e}"
                             ELSE "Invalid JSON: {e}")
                /\ pc' = "Returning"
                /\ data' = data
           ELSE /\ data' = parsed
                /\ pc' = "Translating"
                /\ doResp' = doResp
    /\ UNCHANGED << env, epoch, resp, req, auth, region, target, doReq,
                    outbound, upstream, did, sent >>

\* A processor that answers a handler's error with the status 400.
ProcessingError_as_400(request, e) ==
    TextResponse(400, (IF is_soap(request) THEN "SOAP error: "
                       ELSE "Proxy error: ") \o e)

\* Response::error(format!("SOAP error: {}", e), 500) and its HTTP twin.
ProcessingError(request, e) ==
    TextResponse(500, (IF is_soap(request) THEN "SOAP error: "
                       ELSE "Proxy error: ") \o e)

\* process_soap_request up to "request.send()": the request it sends.
soap_outbound(d, map) ==
    [ kind |-> "soap", method |-> "Post", url |-> d.url,
      headers |-> soap_fixed_headers(map),
      query |-> None, json |-> None, body |-> soap_envelope(d) ]

\* process_request up to "request.send()": the request it sends.
http_outbound(d, map) ==
    LET hs == http_default_headers(map)
    IN  IF params_in_query(d.method)
        THEN [ kind |-> "http", method |-> d.method, url |-> d.url,
               headers |-> hs, query |-> Some(d.params), json |-> None,
               body |-> <<>> ]
        ELSE [ kind |-> "http", method |-> d.method, url |-> d.url,
               headers |-> json_content_type(hs), query |-> None,
               json |-> Some(d.params), body |-> <<>> ]

\* The translator: the client is built, the caller's headers are parsed in
\* the order the HashMap yields them, and the request is sent.  A client
\* or header error returns the 500 and nothing is sent.
Translate ==
    /\ pc = "Translating"
    /\ \E client_ok \in BOOLEAN, order \in IterationOrders(data.headers) :
         LET parsed == ParseHeaders(order, EmptyHeaderMap)
         IN  IF ~client_ok
             THEN /\ doResp' = ProcessingError(doReq, "Failed to create HTTP client")
                  /\ pc' = "Returning"
                  /\ UNCHANGED << outbound, sent, did >>
             ELSE IF ~parsed.ok
             THEN /\ doResp' = ProcessingError(doReq, parsed.err)
                  /\ pc' = "Returning"
                  /\ UNCHANGED << outbound, sent, did >>
             ELSE /\ outbound' = IF is_soap(doReq)
                                 THEN soap_outbound(data, parsed.map)
                                 ELSE http_outbound(data, parsed.map)
                  /\ sent' = sent + 1
                  /\ did' = did \cup { "upstream_call" }
                  /\ pc' = "Forwarding"
                  /\ doResp' = doResp
    /\ UNCHANGED << env, epoch, resp, req, auth, region, target, doReq, data,
                    upstream >>

\* A send that, when the transport fails, is tried once more.
UpstreamResponds_with_retry ==
    /\ pc = "Forwarding"
    /\ \/ /\ \E u \in Upstreams : upstream' = u
          /\ pc' = "Reducing"
          /\ doResp' = doResp
       \/ /\ sent < 2
          /\ pc' = "Translating"
          /\ UNCHANGED << upstream, doResp >>
       \/ /\ sent >= 2
          /\ doResp' = ProcessingError(doReq, "Failed to send request")
          /\ pc' = "Returning"
          /\ upstream' = upstream
    /\ UNCHANGED << env, epoch, resp, req, auth, region, target, doReq, data,
                    outbound, did, sent >>

\* "request.send().await": the upstream answers, or the transport fails
\* and the 500 is returned.
UpstreamResponds ==
    /\ pc = "Forwarding"
    /\ \/ /\ \E u \in Upstreams : upstream' = u
          /\ pc' = "Reducing"
          /\ doResp' = doResp
       \/ /\ doResp' = ProcessingError(doReq,
                        IF is_soap(doReq) THEN "Failed to send SOAP request"
                        ELSE "Failed to send request")
          /\ pc' = "Returning"
          /\ upstream' = upstream
    /\ UNCHANGED << env, epoch, resp, req, auth, region, target, doReq, data,
                    outbound, did, sent >>

\* The reducer, up to the read of the body: the status and the headers
\* are read; an answer that is no 2xx is returned as the Error at once,
\* for a 2xx response.text() is called and the handler waits.
Reduce ==
    /\ pc = "Reducing"
    /\ IF upstream.status >= 200 /\ upstream.status < 300
       THEN /\ pc' = "ReadingResponse"
            /\ doResp' = doResp
       ELSE /\ doResp' = JsonResponse(reduce(upstream.status, upstream.headers,
                                           upstream.text))
            /\ pc' = "Returning"
    /\ UNCHANGED << env, epoch, resp, req, auth, region, target, doReq, data,
                    outbound, upstream, did, sent >>

\* The body of the 2xx answer arrives and the Success is returned as
\* JSON; or the read fails and the 500 is returned.
ReadResponseBody ==
    /\ pc = "ReadingResponse"
    /\ \/ /\ upstream' = [upstream EXCEPT !.text_read = "ok"]
          /\ doResp' = JsonResponse(reduce(upstream.status, upstream.headers,
                                         upstream.text))
       \/ /\ upstream' = [upstream EXCEPT !.text_read = "failed"]
          /\ doResp' = ProcessingError(doReq,
                        IF is_soap(doReq) THEN "Failed to read SOAP response body"
                        ELSE "Failed to read response body")
    /\ pc' = "Returning"
    /\ UNCHANGED << env, epoch, resp, req, auth, region, target, doReq, data,
                    outbound, did, sent >>

\* lib.rs lines 162 and 88: stub.fetch_with_request(do_request).await
\* resolves with the response of the Durable Object, and try_into turns
\* it into the HttpResponse fetch returns, or fails.
Respond ==
    /\ pc = "Returning"
    /\ \/ resp' = doResp
       \/ resp' = FetchErr(<<"response conversion failed">>)
    /\ pc' = "Done"
    /\ UNCHANGED << env, epoch, doResp, req, auth, region, target, doReq,
                    data, outbound, upstream, did, sent >>

\* The response is returned and the request's state is dropped.
Finish ==
    /\ pc = "Done"
    /\ pc' = "Idle"
    /\ req' = Nil
    /\ auth' = "Pending"
    /\ region' = "Unset"
    /\ target' = Nil
    /\ doReq' = Nil
    /\ data' = Nil
    /\ outbound' = Nil
    /\ upstream' = Nil
    /\ doResp' = Nil
    /\ resp' = Nil
    /\ did' = {}
    /\ sent' = 0
    /\ UNCHANGED << env, epoch >>

Next ==
    \/ Receive
    \/ Authenticate
    \/ ReadHeaders
    \/ Classify
    \/ Route
    \/ DoFetchFails
    \/ ProcessorFetch
    \/ TraceResponds
    \/ ProcessorTraced
    \/ ProcessorParse
    \/ Translate
    \/ UpstreamResponds
    \/ Reduce
    \/ ReadResponseBody
    \/ Respond
    \/ Finish

Spec == Init /\ [][Next]_vars

(***************************************************************************)
(* The router alone: route_to_processor applied, in a process of any       *)
(* incarnation, to every request that passed the gate.                     *)
(***************************************************************************)
\* The process incarnations considered.
MaxEpoch == 1

AcceptedRequests ==
    { r \in Requests : r.authorization = Some(BearerPrefix \o SecretToken) }

InitShard ==
    /\ env \in { e \in Envs : e.AUTH_TOKEN = Some(SecretToken) }
    /\ epoch \in 0..MaxEpoch
    /\ pc = "Routing"
    /\ req \in AcceptedRequests
    /\ auth = "Ok"
    /\ region = region_of_header(region_header_or_default(req.region))
    /\ target = Nil
    /\ doReq = Nil
    /\ data = Nil
    /\ outbound = Nil
    /\ upstream = Nil
    /\ doResp = Nil
    /\ resp = Nil
    /\ did = { "classify", "read_body" }
    /\ sent = 0

NextShard == Route

SpecShard == InitShard /\ [][NextShard]_vars

(***************************************************************************)
(* The SOAP translator alone: process_soap_request applied to every        *)
(* request of SoapCases, posted by a caller that passed the gate.          *)
(***************************************************************************)
SoapRequest(d) ==
    [ authorization |-> Some(BearerPrefix \o SecretToken), region |-> None,
      request_type |-> Some(<<"s","o","a","p">>), log_level |-> None,
      body |-> SoapJson(d) ]

InitSoap ==
    /\ env = Env(Some(SecretToken), ProcessorNamespaces)
    /\ epoch = 0
    /\ pc = "Translating"
    /\ data \in SoapCases
    /\ req = SoapRequest(data)
    /\ auth = "Ok"
    /\ region = region_of_header(region_header_or_default(req.region))
    /\ target = route_target(epoch, region, req.body)
    /\ doReq = do_request(req.body, UnwrapOrDefault(req.request_type),
                          LogLevel_from_header(UnwrapOrDefault(req.log_level)))
    /\ outbound = Nil
    /\ upstream = Nil
    /\ doResp = Nil
    /\ resp = Nil
    /\ did = { "classify", "read_body", "route", "forward", "colo_trace" }
    /\ sent = 0

NextSoap == Translate

SpecSoap == InitSoap /\ [][NextSoap]_vars

(***************************************************************************)
(* Both translators: process_request applied to every request of           *)
(* HttpCases, and process_soap_request to every request of SoapCases, and  *)
(* the return of the processor's response through fetch.                   *)
(***************************************************************************)
HttpRequest(c) ==
    [ authorization |-> Some(BearerPrefix \o SecretToken), region |-> None,
      request_type |-> None, log_level |-> None, body |-> HttpJson(c) ]

InitHttp ==
    /\ env = Env(Some(SecretToken), ProcessorNamespaces)
    /\ epoch = 0
    /\ pc = "Translating"
    /\ \E c \in HttpCases :
          /\ data = RequestData_of(c)
          /\ req = HttpRequest(c)
    /\ auth = "Ok"
    /\ region = region_of_header(region_header_or_default(req.region))
    /\ target = route_target(epoch, region, req.body)
    /\ doReq = do_request(req.body, UnwrapOrDefault(req.request_type),
                          LogLevel_from_header(UnwrapOrDefault(req.log_level)))
    /\ outbound = Nil
    /\ upstream = Nil
    /\ doResp = Nil
    /\ resp = Nil
    /\ did = { "classify", "read_body", "route", "forward", "colo_trace" }
    /\ sent = 0

InitTranslate == InitSoap \/ InitHttp

NextTranslate == Translate \/ Respond

SpecTranslate == InitTranslate /\ [][NextTranslate]_vars


(***************************************************************************)
(* Properties of the authentication gate                                   *)
(***************************************************************************)
\* The request carries "Bearer " followed by exactly the configured secret.
CarriesTheSecret ==
    /\ env.AUTH_TOKEN # None
    /\ req.authorization # None
    /\ req.authorization[1] = BearerPrefix \o env.AUTH_TOKEN[1]

\* C1: validate_token accepts a request if and only if its Authorization
\* header is "Bearer " followed by exactly the configured AUTH_TOKEN, and
\* every rejected request, whatever the cause, is answered with status 403
\* and the one fixed body.
C1_AcceptIffSecretAndUniform403 ==
    /\ auth # "Pending" => (auth = "Ok" <=> CarriesTheSecret)
    /\ auth = "Err" =>
         resp = TextResponse(403,
                   "Forbidden: Invalid or missing authentication token")

\* A request with a proper prefix of the secret as its token was rejected.
C1_Witness ==
    /\ auth = "Err"
    /\ pc = "Done"
    /\ env.AUTH_TOKEN = Some(SecretToken)
    /\ req.authorization = Some(BearerPrefix \o <<"s","3">>)
    /\ resp.status = 403

\* C2: a request whose authentication failed is terminated at once, with
\* no classification, no read of the body, no routing, no forward to a
\* processor and no upstream call; and a forward to a processor happens
\* only for a request that validate_token accepted.
C2_AuthFailureStopsThePipeline ==
    /\ auth = "Err" =>
         /\ pc = "Done"
         /\ did = {}
         /\ sent = 0
         /\ region = "Unset"
         /\ target = Nil
         /\ doReq = Nil
         /\ data = Nil
         /\ outbound = Nil
         /\ upstream = Nil
         /\ doResp = Nil
    /\ did # {} => auth = "Ok" /\ CarriesTheSecret
    /\ sent > 0 => "forward" \in did

\* A request with no Authorization header and a SOAP body was stopped.
C2_Witness ==
    /\ auth = "Err"
    /\ pc = "Done"
    /\ req.authorization = None
    /\ req.body = Body_soap_example
    /\ did = {}

(***************************************************************************)
(* Properties of the classification and of the routing table               *)
(***************************************************************************)
\* The text h is the code, each letter in either case.
SameLetters(h, code) ==
    /\ Len(h) = Len(code)
    /\ \A i \in 1..Len(h) :
         \/ h[i] = code[i]
         \/ \E k \in 1..26 : code[i] = LowerLetters[k] /\ h[i] = UpperLetters[k]

\* The region a region header names, by the table of the 8 codes.
RegionNamedBy(h) ==
    IF h = None THEN "WesternNorthAmerica"
    ELSE CASE SameLetters(h[1], <<"w","n","a","m">>) -> "WesternNorthAmerica"
           [] SameLetters(h[1], <<"e","n","a","m">>) -> "EasternNorthAmerica"
           [] SameLetters(h[1], <<"w","e","u","r">>) -> "WesternEurope"
           [] SameLetters(h[1], <<"e","e","u","r">>) -> "EasternEurope"
           [] SameLetters(h[1], <<"a","p","a","c">>) -> "AsiaPacific"
           [] SameLetters(h[1], <<"o","c">>) -> "Oceania"
           [] SameLetters(h[1], <<"a","f">>) -> "Africa"
           [] SameLetters(h[1], <<"m","e">>) -> "MiddleEast"
           [] OTHER -> "WesternNorthAmerica"

\* The code and the namespace that name a region.
CodeOf ==
    [ WesternNorthAmerica |-> "wnam", EasternNorthAmerica |-> "enam",
      WesternEurope |-> "weur", EasternEurope |-> "eeur",
      AsiaPacific |-> "apac", Oceania |-> "oc", Africa |-> "af",
      MiddleEast |-> "me" ]

NamespaceOf ==
    [ WesternNorthAmerica |-> "WNAM_PROCESSOR",
      EasternNorthAmerica |-> "ENAM_PROCESSOR",
      WesternEurope |-> "WEUR_PROCESSOR", EasternEurope |-> "EEUR_PROCESSOR",
      AsiaPacific |-> "APAC_PROCESSOR", Oceania |-> "OC_PROCESSOR",
      Africa |-> "AF_PROCESSOR", MiddleEast |-> "ME_PROCESSOR" ]

\* C3: the target route_to_processor chooses is consistent: the namespace,
\* the prefix of the actor name and the location hint all name the region
\* of the request; a request whose X-CF-Region is weur or eeur in any
\* letter case goes to the WEUR or EEUR namespace with the hint "weur" or
\* "eeur" and is_eu true, and is_eu is true for no other region.
C3_TargetNamesTheRegion ==
    target # Nil =>
      /\ target.namespace = NamespaceOf[region]
      /\ target.region_code = CodeOf[region]
      /\ target.location_hint = CodeOf[region]
      /\ target.do_name =
           CodeOf[region] \o "-processor-" \o ToString(target.do_index)
      /\ target.is_eu <=> region \in { "WesternEurope", "EasternEurope" }
      /\ req.region # None /\ SameLetters(req.region[1], <<"w","e","u","r">>)
           => /\ target.namespace = "WEUR_PROCESSOR"
              /\ target.location_hint = "weur"
              /\ target.is_eu
      /\ req.region # None /\ SameLetters(req.region[1], <<"e","e","u","r">>)
           => /\ target.namespace = "EEUR_PROCESSOR"
              /\ target.location_hint = "eeur"
              /\ target.is_eu

\* A request with the header "WeUr" was routed.
C3_Witness ==
    /\ pc = "Dispatched"
    /\ req.region = Some(<<"W","e","U","r">>)
    /\ target.namespace = "WEUR_PROCESSOR"
    /\ target.is_eu

\* The shard of each body of the model, as SipHash-1-3 with the key (0, 0)
\* over the bytes of the body followed by 0xff gives it, modulo 10.
ShardOfBody(body) ==
    CASE body = Body_empty -> 9
      [] body = Body_http_default -> 7
      [] body = Body_http_get -> 8
      [] body = Body_soap_one -> 6
      [] body = Body_bad_header -> 6
      [] body = Body_soap_example -> 3

\* C4: for a body and a region, route_to_processor selects the same shard
\* index and the same actor name "<regionCode>-processor-<shardIndex>" in
\* every process incarnation; the index is the hash of the body modulo 10
\* and lies in 0..9.
C4_ShardIsAFunctionOfTheBody ==
    target # Nil =>
      /\ target.do_index \in 0..9
      /\ target.do_index = ShardOfBody(req.body)
      /\ target.do_name =
           CodeOf[region] \o "-processor-" \o ToString(ShardOfBody(req.body))

\* A process of a later incarnation routed the default HTTP body.
C4_Witness ==
    /\ pc = "Dispatched"
    /\ epoch > 0
    /\ req.body = Body_http_default
    /\ req.region = Some(<<"O","c">>)
    /\ target.do_name = "oc-processor-7"

\* C5: the classification is a total function of the X-CF-Region header:
\* each of the 8 codes maps, in any letter case, to its own region, and an
\* absent header or any other value maps to Western North America.
C5_ClassificationIsTotal ==
    /\ "classify" \in did =>
         /\ region \in ProcessorRegion
         /\ region = RegionNamedBy(req.region)
    /\ pc = "Classifying" => ENABLED ReadHeaders
    /\ pc = "ReadingBody" => ENABLED Classify

\* A request with the header "APAC" was classified.
C5_Witness ==
    /\ pc = "Routing"
    /\ req.region = Some(<<"A","P","A","C">>)
    /\ region = "AsiaPacific"

(***************************************************************************)
(* Properties of the response reducer                                      *)
(***************************************************************************)
\* The reason phrase of each status of the model that is no 2xx.
ReasonOf(status) ==
    CASE status = 304 -> "Not Modified"
      [] status = 404 -> "Not Found"
      [] status = 500 -> "Internal Server Error"
      [] OTHER -> "Unknown Status"

\* The JSON value of each upstream body of the model.
ValueOfBody(text) ==
    CASE text = <<"{","\"","a","\"",":","1","}">> ->
            VObject(<< <<(<<"a">>), VNumber(1)>> >>)
      [] text = <<"\"","p","w","\"">> -> VString(<<"p","w">>)
      [] text = <<"4","2">> -> VNumber(42)
      [] OTHER -> VString(text)

\* The places of the upstream's headers whose value is visible ASCII.
ReadableHeaders ==
    { i \in 1..Len(upstream.headers) :
        \A c \in 1..Len(upstream.headers[i].v) :
           IsVisibleAscii(upstream.headers[i].v[c]) }

\* The handler has returned to the processor after the upstream answered.
Reduced == upstream # Nil /\ doResp # Nil

\* The processor answers with the Success of the upstream's answer.
SuccessOfUpstream ==
    /\ doResp.status = 200
    /\ doResp.body.kind = "json"
    /\ doResp.body.api.variant = "Success"
    /\ doResp.body.api.status = upstream.status
    /\ doResp.body.api.body = ValueOfBody(upstream.text)
    /\ DOMAIN doResp.body.api.headers =
         { upstream.headers[i].k : i \in ReadableHeaders }
    /\ \A i \in ReadableHeaders :
         (\A j \in ReadableHeaders :
             upstream.headers[j].k = upstream.headers[i].k => j <= i)
           => doResp.body.api.headers[upstream.headers[i].k]
                = upstream.headers[i].v

\* The Error of the upstream's status, with nothing else of its answer.
ErrorOfUpstream ==
    JsonResponse([ variant |-> "Error", status |-> upstream.status,
                   message |-> ReasonOf(upstream.status) ])

\* C6, as stated: every 2xx answer gives Success with the status, the
\* headers and the body as JSON or raw text, and every other status gives
\* the Error of the status alone.
C6_AsStated ==
    Reduced =>
      IF upstream.status \in 200..299
      THEN SuccessOfUpstream
      ELSE doResp = ErrorOfUpstream

\* C6: the reducer reads the upstream body only for a 2xx status: a 2xx
\* answer whose body is read gives Success with the status, the headers
\* (the last readable value of each name) and the parsed JSON or, when the
\* text is no JSON, the raw text as a string; a 2xx answer whose body
\* cannot be read gives no ApiResponse but the 500 of the processor; any
\* other status gives Error with the status and its reason phrase or
\* "Unknown Status", the same value whatever the upstream's body and
\* headers, and what fetch then returns is that Error or an error of its
\* own, never the upstream's body.
C6_BodyOnlyFor2xx ==
    /\ upstream # Nil /\ upstream.text_read # "pending" =>
         upstream.status \in 200..299
    /\ Reduced =>
         IF upstream.status \in 200..299
         THEN /\ upstream.text_read \in { "ok", "failed" }
              /\ upstream.text_read = "ok" => SuccessOfUpstream
              /\ upstream.text_read = "failed" =>
                    /\ doResp.status = 500
                    /\ doResp.body.kind = "text"
         ELSE /\ doResp = ErrorOfUpstream
              /\ upstream.text_read = "pending"
    /\ pc = "Done" /\ upstream # Nil /\ upstream.status \notin 200..299 =>
         /\ resp.body.kind \in { "json", "fetch_err" }
         /\ resp.body.kind = "json" => resp = ErrorOfUpstream

\* A 304 with a body was reduced to the Error of its status, which fetch
\* returned.
C6_Witness ==
    /\ Reduced
    /\ upstream.status = 304
    /\ upstream.text # <<>>
    /\ doResp.body.api.variant = "Error"
    /\ doResp.body.api.message = "Not Modified"
    /\ pc = "Done"
    /\ resp = doResp

(***************************************************************************)
(* Properties of the SOAP translator                                       *)
(***************************************************************************)
\* A SOAP request has been sent to the upstream.
SoapSent == outbound # Nil /\ outbound.kind = "soap"

\* What the envelope holds before the first parameter element.
BeforeParams(d) ==
    <<EnvelopeOpen, "<ns1766:">> \o d.action \o <<" xmlns:ns1766=\"">>
    \o d.namespace \o <<"\">">>

\* What the envelope holds after the last parameter element.
AfterParams(d) ==
    <<"</ns1766:">> \o d.action \o <<">", EnvelopeClose>>

RECURSIVE ElementsLength(_, _)
\* The length of the elements of the first n parameters.
ElementsLength(params, n) ==
    IF n = 0 THEN 0
    ELSE ElementsLength(params, n - 1) + Len(param_element(params[n]))

\* C7: the parameter elements of the envelope appear in the order of the
\* input list, one element per input pair: the element of params[i] sits
\* right after the elements of the pairs before it, duplicates kept,
\* nothing re-sorted, merged or dropped.
C7_ParamsKeepTheirOrder ==
    SoapSent =>
      LET ps == data.params
          at(i) == Len(BeforeParams(data)) + ElementsLength(ps, i - 1)
      IN  /\ \A i \in 1..Len(ps) :
                SubSeq(outbound.body, at(i) + 1,
                       at(i) + Len(param_element(ps[i]))) = param_element(ps[i])
          /\ SubSeq(outbound.body, 1, Len(BeforeParams(data)))
               = BeforeParams(data)
          /\ SubSeq(outbound.body, at(Len(ps) + 1) + 1, Len(outbound.body))
               = AfterParams(data)

\* A request with the key "1" twice, with two values, was sent.
C7_Witness ==
    /\ SoapSent
    /\ data.params = << <<(<<"1">>), VNumber(44)>>,
                        <<(<<"1">>), VString(<<"4","4">>)>> >>

\* The example with the 44 given as a JSON number.
SoapExampleNumber ==
    SoapData(T_getDIDCountry, T_urn_getDIDCountry,
             << <<(<<"1">>), VNumber(44)>>, <<T_format, VString(T_json)>> >>,
             {})

\* The envelope of the example, with the given type of the first element.
ExampleEnvelope(type) ==
    EnvelopeOpen
    \o "<ns1766:getDIDCountry xmlns:ns1766=\"urn:getDIDCountry\">"
    \o "<__numeric_1 xsi:type=\"" \o type \o "\">44</__numeric_1>"
    \o "<format xsi:type=\"xsd:string\">json</format>"
    \o "</ns1766:getDIDCountry>"
    \o EnvelopeClose

\* C8, as stated: for the action getDIDCountry, the namespace
\* urn:getDIDCountry and the params [("1","44"),("format","json")], both
\* values strings, the envelope holds <__numeric_1 xsi:type="xsd:int">44.
C8_AsStated ==
    SoapSent /\ data = SoapExample =>
      Str(outbound.body) = ExampleEnvelope("xsd:int")

\* C8: the envelope of the example holds the element __numeric_1 with the
\* type of the JSON value given: xsd:string when the 44 is given as a
\* string, xsd:int when it is given as a number; the rest of the envelope
\* is the one of the example.
C8_ExampleTypeFollowsTheJsonValue ==
    /\ SoapSent /\ data = SoapExample =>
         Str(outbound.body) = ExampleEnvelope("xsd:string")
    /\ SoapSent /\ data = SoapExampleNumber =>
         Str(outbound.body) = ExampleEnvelope("xsd:int")

\* The example, its values given as strings, was sent.
C8_Witness ==
    /\ SoapSent
    /\ data = SoapExample
    /\ pc = "Forwarding"
    /\ sent = 1

\* C9: the SOAP payload sent upstream holds no newline character, whatever
\* the action, the namespace and the parameters, string values with line
\* breaks included.
C9_NoNewlineInPayload ==
    SoapSent => \A i \in 1..Len(outbound.body) : outbound.body[i] # "\n"

FixedHeaderNames == { "content-type", "soapaction", "user-agent" }

\* The three fixed headers of the outbound request have their fixed values.
FixedHeadersSent ==
    /\ FixedHeaderNames \subseteq DOMAIN outbound.headers
    /\ Str(outbound.headers["content-type"]) = "text/xml; charset=ISO-8859-1"
    /\ Str(outbound.headers["soapaction"]) = "\"\""
    /\ Str(outbound.headers["user-agent"]) = "NuSOAP/0.9.17 (1.123)"

\* C10, as stated: the outbound request carries the three fixed headers,
\* and every other header of the caller is sent with the caller's value.
C10_AsStated ==
    SoapSent =>
      /\ FixedHeadersSent
      /\ \A h \in data.headers :
           HeaderNameOf(h.k) \notin FixedHeaderNames =>
             /\ HeaderNameOf(h.k) \in DOMAIN outbound.headers
             /\ outbound.headers[HeaderNameOf(h.k)] = h.v

\* C10: the outbound request carries the three fixed headers with their
\* fixed values whatever the caller supplies; the other headers sent are
\* the caller's header names without regard to letter case, each once,
\* with one of the values the caller gave under that name.
C10_FixedHeadersWin ==
    SoapSent =>
      /\ FixedHeadersSent
      /\ DOMAIN outbound.headers =
           FixedHeaderNames \cup { HeaderNameOf(h.k) : h \in data.headers }
      /\ \A n \in (DOMAIN outbound.headers) \ FixedHeaderNames :
           outbound.headers[n] \in
             { h.v : h \in { g \in data.headers : HeaderNameOf(g.k) = n } }

\* A request with the caller's own Content-Type and one more header was sent.
C10_Witness ==
    /\ SoapSent
    /\ data.headers =
         { Header(<<"C","o","n","t","e","n","t","-","T","y","p","e">>, <<"a","/","b">>),
           Header(<<"X","-","B">>, <<"3">>) }
    /\ outbound.headers["x-b"] = <<"3">>

(***************************************************************************)
(* Properties of the pass-through translator                               *)
(***************************************************************************)
\* An HTTP request has been sent to the upstream.
HttpSent == outbound # Nil /\ outbound.kind = "http"

\* The text holds the piece, somewhere.
Contains(text, piece) ==
    \E i \in 0..(Len(text) - Len(piece)) :
       SubSeq(text, i + 1, i + Len(piece)) = piece

\* The inbound JSON has a "method" field.
HasMethodField ==
    Contains(req.body, <<"\"","m","e","t","h","o","d","\"",":">>)

\* C11: process_request places the params by method: for GET, HEAD and
\* DELETE they go into the query string and no JSON body is set; for POST,
\* PUT, PATCH and OPTIONS they are the JSON object body and the query
\* string is left alone; an inbound JSON without a method field is sent as
\* a POST, its params in the JSON body.
C11_ParamsPlacedByMethod ==
    HttpSent =>
      /\ outbound.method \in HttpMethods
      /\ outbound.method \in { "Get", "Head", "Delete" } =>
           /\ outbound.query = Some(data.params)
           /\ outbound.json = None
      /\ outbound.method \in { "Post", "Put", "Patch", "Options" } =>
           /\ outbound.json = Some(data.params)
           /\ outbound.query = None
      /\ ~HasMethodField =>
           /\ outbound.method = "Post"
           /\ outbound.json = Some(data.params)

\* A DELETE with two params was sent, the params in the query string.
C11_Witness ==
    /\ HttpSent
    /\ outbound.method = "Delete"
    /\ outbound.query =
         Some({ Header(<<"q">>, <<"x">>), Header(<<"n">>, <<"1">>) })
    /\ outbound.json = None

(***************************************************************************)
(* Properties of the pipeline as a whole                                   *)
(***************************************************************************)
\* The place of each stage in the pipeline.
StageRank ==
    [ Idle |-> 0, Authenticating |-> 1, Classifying |-> 2, ReadingBody |-> 3,
      Routing |-> 4, Dispatched |-> 5, Tracing |-> 6, ReadingTrace |-> 7,
      Parsing |-> 8, Translating |-> 9, Forwarding |-> 10, Reducing |-> 11,
      ReadingResponse |-> 12, Returning |-> 13, Done |-> 14 ]

\* C12: a request moves only forward through Authenticating, Classifying,
\* Routing, Translating, Forwarding and Reducing to Done, no stage being
\* entered twice; at most one call is made to the upstream URL, a
\* transport failure being final; and the request ends with exactly one
\* outcome, an ApiResponse or a terminal error (an error response, or
\* the error fetch returns when the inbound body cannot be read, the
\* namespace is not bound, or the call of the processor or the conversion
\* of its response fails, at any stage), set once; the processor builds
\* at most one response.
C12_ForwardOnlyOneCallOneOutcome ==
    /\ [](sent <= 1)
    /\ [](pc = "Done" <=> resp # Nil)
    /\ [](pc = "Done" =>
            \/ resp.body.kind = "json" /\ resp.status = 200
            \/ resp.body.kind = "text" /\ resp.status \in { 403, 400, 500 }
            \/ resp.body.kind = "fetch_err" /\ auth = "Ok")
    /\ [](doResp # Nil => pc \in { "Returning", "Done" })
    /\ [][doResp # Nil => doResp' = doResp \/ (pc' = "Idle" /\ doResp' = Nil)]_vars
    /\ [][pc' # pc =>
            \/ StageRank[pc'] > StageRank[pc]
            \/ pc = "Done" /\ pc' = "Idle"]_vars
    /\ [][sent' # sent =>
            \/ sent' = sent + 1 /\ pc = "Translating" /\ pc' = "Forwarding"
            \/ pc = "Done" /\ pc' = "Idle"]_vars
    /\ [][resp # Nil => pc' = "Idle" /\ resp' = Nil]_vars

\* The transport to the upstream failed after the one call, and the
\* request ended with the error.
C12_Witness ==
    /\ pc = "Done"
    /\ sent = 1
    /\ outbound # Nil
    /\ upstream = Nil
    /\ resp.status = 500

(***************************************************************************)
(* Properties of the status of the proxy's own response                    *)
(***************************************************************************)
\* The body of the request is a JSON object of the schema its request
\* type asks for: url, action and namespace with params as a list of pairs
\* for SOAP; url with params as an object of strings otherwise.
FitsSchema ==
    IF to_lowercase(UnwrapOrDefault(req.request_type)) = <<"s","o","a","p">>
    THEN req.body \in { Body_soap_one, Body_bad_header, Body_soap_example }
    ELSE req.body \in { Body_http_default, Body_http_get, Body_bad_header }

\* The translator failed before sending: a header or the client.
TranslationFailed == data # Nil /\ outbound = Nil

\* The request was sent and no answer came.
TransportFailed == outbound # Nil /\ upstream = Nil

\* The status line of a 2xx answer came and its body did not.
BodyLost ==
    upstream # Nil /\ upstream.status \in 200..299 /\ upstream.text_read = "failed"

\* The read of the inbound body was begun and did not end well.
InboundBodyLost == "read_body" \in did /\ "classify" \notin did

\* The namespace of the request's region is not bound in the deployment.
BindingMissing ==
    "classify" \in did /\ NamespaceOf[region] \notin env.bindings

\* fetch returned a response; otherwise it returned an error.
ResponseReturned == resp.body.kind # "fetch_err"

\* The upstream's answer is returned as an ApiResponse in a normal response.
NormalOutcome ==
    /\ resp.status = 200
    /\ resp.body.kind = "json"
    /\ resp.body.api.status = upstream.status
    /\ resp.body.api.variant =
         IF upstream.status \in 200..299 THEN "Success" ELSE "Error"

\* C13, as stated: the status is 403 exactly when authentication fails,
\* 400 exactly when the inbound JSON does not fit the schema, 500 exactly
\* when header translation, client construction or the transport fails;
\* whenever the upstream answers at all the response is a normal one.
C13_AsStated ==
    pc = "Done" =>
      /\ resp.status = 403 <=> auth = "Err"
      /\ resp.status = 400 <=> auth = "Ok" /\ ~FitsSchema
      /\ resp.status = 500 <=> TranslationFailed \/ TransportFailed
      /\ upstream # Nil => NormalOutcome

\* C13: the status is 403 exactly when authentication fails; whenever
\* fetch returns a response, its status is 400 exactly when the inbound
\* JSON does not fit the schema, 500 exactly when header translation,
\* client construction or the transport fails or the body of a 2xx answer
\* cannot be read, and, when the upstream's answer arrived (for a 2xx,
\* with its body), it is a normal one holding the ApiResponse, a non-2xx
\* status appearing only as its Error variant. fetch returns an error and
\* no response, whatever the processor had built, only for an
\* authenticated request: always when the inbound body cannot be read or
\* the namespace of the region is not bound, and otherwise only after the
\* forward, when the call of the processor or the conversion of its
\* response fails.
C13_StatusSeparatesErrors ==
    pc = "Done" =>
      /\ resp.status = 403 <=> auth = "Err"
      /\ ResponseReturned =>
           /\ resp.status \in { 200, 400, 403, 500 }
           /\ resp.status = 400 <=> auth = "Ok" /\ ~FitsSchema
           /\ resp.status = 500 <=>
                TranslationFailed \/ TransportFailed \/ BodyLost
           /\ upstream # Nil /\ ~BodyLost => NormalOutcome
      /\ ~ResponseReturned =>
           /\ auth = "Ok"
           /\ InboundBodyLost \/ BindingMissing \/ "forward" \in did
      /\ InboundBodyLost \/ BindingMissing => ~ResponseReturned

\* The upstream answered 500 and the proxy returned a normal response.
C13_Witness ==
    /\ pc = "Done"
    /\ ResponseReturned
    /\ upstream # Nil
    /\ upstream.status = 500
    /\ resp.status = 200
    /\ resp.body.api.variant = "Error"
    /\ resp.body.api.status = 500

(***************************************************************************)
(* Properties of the header translation                                    *)
(***************************************************************************)
\* A header of the caller fails the validation of its name or its value.
HasInvalidHeader ==
    \E h \in data.headers : ~HeaderNameOk(h.k) \/ ~HeaderValue_from_str_ok(h.v)

\* C14: in both translators, when a header name or value of the caller
\* fails wire-format validation the translation fails, the failure is
\* returned as status 500, and no request is sent to the upstream URL:
\* the invalid header is never dropped with the others being sent.
C14_InvalidHeaderFailsTheTranslation ==
    pc # "Translating" /\ HasInvalidHeader =>
      /\ pc \in { "Returning", "Done" }
      /\ doResp.status = 500
      /\ doResp.body.kind = "text"
      /\ pc = "Done" /\ resp.body.kind # "fetch_err" =>
            resp.status = 500 /\ resp.body.kind = "text"
      /\ outbound = Nil
      /\ sent = 0
      /\ "upstream_call" \notin did

\* An HTTP request with a valid header and one whose name holds a space
\* ended with the 500, nothing sent.
C14_Witness ==
    /\ pc = "Done"
    /\ ~is_soap(doReq)
    /\ data.headers =
         { Header(<<"B","a","d"," ","N","a","m","e">>, <<"v">>),
           Header(<<"X","-","B">>, <<"3">>) }
    /\ resp.status = 500
    /\ sent = 0

(***************************************************************************)
(* Properties of the parameter keys of the envelope                        *)
(***************************************************************************)
\* The tag of a key: __numeric_<key> for a non-empty key of digits only,
\* the key itself otherwise.
TagOfKey(key) ==
    IF key # <<>>
       /\ \A i \in 1..Len(key) :
             key[i] \in { "0","1","2","3","4","5","6","7","8","9" }
    THEN <<"__numeric_">> \o key
    ELSE key

\* C15: a parameter key is emitted as __numeric_<key>, in the opening and
\* in the closing tag, exactly when it is a non-empty string of digits;
\* every other key, the empty key and the keys mixing digits with other
\* characters included, is emitted unchanged.
C15_NumericPrefixForDigitKeysOnly ==
    SoapSent =>
      \A i \in 1..Len(data.params) :
         LET from == Len(BeforeParams(data)) + ElementsLength(data.params, i - 1)
             to == Len(BeforeParams(data)) + ElementsLength(data.params, i)
             opening == <<"<">> \o TagOfKey(data.params[i][1]) \o <<" xsi:type=\"">>
             closing == <<"</">> \o TagOfKey(data.params[i][1]) \o <<">">>
         IN  /\ SubSeq(outbound.body, from + 1, from + Len(opening)) = opening
             /\ SubSeq(outbound.body, to - Len(closing) + 1, to) = closing

====
